---- MODULE Spec2Model ----
(***************************************************************************)
(* A model of the retrieval layer: the Elasticsearch-backed vector store   *)
(* (langchain/vectorstores/elastic_vector_search.py), the VectorStore      *)
(* interface (langchain/vectorstores/base.py) and the semantic-similarity  *)
(* example selector (langchain/prompts/example_selector/                   *)
(* semantic_similarity.py).  The search engine and the embedding           *)
(* capability are external collaborators: the engine is modelled by the    *)
(* operations the code calls on it (indices.create, bulk, indices.refresh, *)
(* search), the embedding capability by fixed tables.                      *)
(***************************************************************************)
EXTENDS Integers, Sequences, FiniteSets, TLC

VARIABLES environ, installed, indexes, store, selector, last

vars == <<environ, installed, indexes, store, selector, last>>

(***************************************************************************)
(* Bounds of the model.                                                    *)
(***************************************************************************)
\* Longest list of texts drawn freely from Texts.
MaxTexts == 2
\* Uniform lists reach this many entries beyond the engine's default size.
MaxOver == 1
\* Indexes the engine may hold (from_texts never deletes one).
MaxIndexes == 1
\* Result counts 1..MaxK are tried, and one count above every index size.
MaxK == 2

\* The number of hits the engine returns for a search request that carries
\* no explicit size (the request of similarity_search carries none).
DefaultSize == 10

(***************************************************************************)
(* Values.  An optional value is <<>> (None / absent) or <<x>>.            *)
(***************************************************************************)
None == <<>>

Some(x) == <<x>>

Min(a, b) == IF a < b THEN a ELSE b

Texts == {"a", "b", "a b"}

GoodUrl == "http://localhost:9200"

EnvUrl == "http://es.env:9200"

\* A string the client library rejects as a connection string.
BadUrl == "::bad::"

\* What a caller may pass as elasticsearch_url, and what os.environ may hold
\* under ELASTICSEARCH_URL (None: the key is absent).
ArgUrls == {None, Some(""), Some(GoodUrl), Some(BadUrl)}

EnvUrls == {None, Some(""), Some(EnvUrl)}

\* Python truthiness of an optional string: None and "" are falsy.
Truthy(opt) == opt # None /\ opt[1] # ""

\* Sequences over S of length at most n.
SeqsUpTo(S, n) == UNION {[1..m -> S] : m \in 0..n}

(***************************************************************************)
(* The embedding capability (langchain.embeddings.base.Embeddings): a      *)
(* batch method embed_documents and a per-item method embed_query, here    *)
(* fixed deterministic tables over Texts.  Vectors have two dimensions,    *)
(* integer coordinates and an integer, non-zero norm.                      *)
(***************************************************************************)
EmbeddingNames == {"exact", "collinear", "skewed", "failing"}

DocumentTable ==
    [e \in EmbeddingNames |->
        IF e = "collinear"
        THEN [t \in Texts |-> CASE t = "a" -> <<1, 0>>
                                [] t = "b" -> <<2, 0>>
                                [] OTHER   -> <<3, 0>>]
        ELSE [t \in Texts |-> CASE t = "a" -> <<1, 0>>
                                [] t = "b" -> <<0, 1>>
                                [] OTHER   -> <<3, 4>>]]

QueryTable ==
    [e \in EmbeddingNames |->
        IF e = "skewed"
        THEN [t \in Texts |-> CASE t = "a" -> <<0, 1>>
                                [] t = "b" -> <<1, 0>>
                                [] OTHER   -> <<4, 3>>]
        ELSE DocumentTable[e]]

\* Whether calling the capability raises.
Raises(e) == e = "failing"

\* embedding.embed_documents(texts): one vector per text, in order.
embed_documents(e, texts) == [i \in 1..Len(texts) |-> DocumentTable[e][texts[i]]]

\* embedding.embed_query(text).
embed_query(e, text) == QueryTable[e][text]

\* The two methods of the capability agree on every text.
Agrees(e) == QueryTable[e] = DocumentTable[e]

(***************************************************************************)
(* The engine.                                                             *)
(***************************************************************************)
Dot(u, v) == u[1] * v[1] + u[2] * v[2]

Norm(v) == CHOOSE n \in 0..10 : n * n = Dot(v, v)

\* cosineSimilarity(q, v) + 1.0 as the exact fraction num / den, den > 0.
CosinePlusOne(q, v) ==
    [num |-> Dot(q, v) + Norm(q) * Norm(v), den |-> Norm(q) * Norm(v)]

ScoreLess(s, t) == s.num * t.den < t.num * s.den

default_text_mapping(dim) ==
    [properties |-> [text |-> [type |-> "text"],
                     vector |-> [type |-> "dense_vector", dims |-> dim]]]

default_script_query(query_vector) ==
    [script_score |->
        [query |-> "match_all",
         script |-> [source |-> "cosineSimilarity(params.query_vector, 'vector') + 1.0",
                     params |-> [query_vector |-> query_vector]]]]

\* The engine's evaluation of a script_score query on one stored entry.
ScriptScore(script_query, source) ==
    CosinePlusOne(script_query.script_score.script.params.query_vector, source.vector)

\* The sequence s without element number i.
RemoveAt(s, i) == [j \in 1..(Len(s) - 1) |-> IF j < i THEN s[j] ELSE s[j + 1]]

\* Every order of the entries in which the score never increases; entries of
\* equal score come in any order (the engine defines none).  scores[i] is the
\* score of entries[i].
RECURSIVE Rankings(_, _)
Rankings(entries, scores) ==
    IF entries = <<>> THEN {<<>>}
    ELSE LET best == {i \in 1..Len(entries) :
                        \A j \in 1..Len(entries) : ~ScoreLess(scores[i], scores[j])}
             firsts == {entries[i] : i \in best}
         IN  UNION {LET i == CHOOSE i \in best : entries[i] = d
                    IN  {<<d>> \o r : r \in Rankings(RemoveAt(entries, i),
                                                      RemoveAt(scores, i))}
                    : d \in firsts}

Head_(s, n) == SubSeq(s, 1, Min(Len(s), n))

\* client.search(index=..., query=...): the hit lists the engine may return,
\* each the first DefaultSize entries of a ranking of the searchable entries.
EngineSearch(index, script_query) ==
    LET scores == [i \in 1..Len(index.docs) |-> ScriptScore(script_query, index.docs[i])]
    IN  {Head_(r, DefaultSize) : r \in Rankings(index.docs, scores)}

\* client.indices.create(index=name, mappings=mapping): names are positions.
EngineCreate(ixs, mapping) ==
    Append(ixs, [mappings |-> mapping, docs |-> <<>>, pending |-> <<>>])

\* bulk(client, requests): each request's source is written to its index; it is
\* not searchable before the next refresh.
EngineBulk(ixs, name, requests) ==
    [ixs EXCEPT ![name].pending =
        @ \o [i \in 1..Len(requests) |->
                [f \in DOMAIN requests[i] \ {"_op_type", "_index"} |-> requests[i][f]]]]

\* client.indices.refresh(index=name): everything written becomes searchable.
EngineRefresh(ixs, name) ==
    [ixs EXCEPT ![name].docs = @ \o ixs[name].pending, ![name].pending = <<>>]

(***************************************************************************)
(* Documents and dicts.  A dict is the sequence of its <<key, value>>      *)
(* pairs in insertion order, the order dict.values() iterates in.          *)
(***************************************************************************)
EmptyDict == <<>>

\* langchain.docstore.document.Document: metadata defaults to an empty dict.
Document(page_content, metadata) ==
    [page_content |-> page_content, metadata |-> metadata]

Keys(d) == {d[i][1] : i \in 1..Len(d)}

\* d[key], for a key of d.
Lookup(d, key) == d[CHOOSE i \in 1..Len(d) : d[i][1] = key][2]

(***************************************************************************)
(* ElasticVectorSearch.                                                    *)
(***************************************************************************)
\* The names bound at module level in elastic_vector_search.py: its imports
\* and its definitions.  from_texts imports elasticsearch and bulk into its
\* own local scope only.
ModuleGlobals ==
    {"os", "uuid", "Any", "Callable", "Dict", "List", "Document", "Embeddings",
     "VectorStore", "_default_text_mapping", "_default_script_query",
     "ElasticVectorSearch"}

NoStore ==
    [cls |-> "None", elasticsearch_url |-> "", index_name |-> 0,
     embedding_function |-> [obj |-> "", method |-> ""], docs |-> <<>>]

\* Calling a bound method of the embedding capability on one text.
CallEmbedding(f, text) ==
    IF f.method = "embed_query" THEN embed_query(f.obj, text)
    ELSE embed_documents(f.obj, <<text>>)[1]

\* elasticsearch.Elasticsearch(url) raises ValueError on a malformed string.
ClientAccepts(url) == url # BadUrl

\* ElasticVectorSearch.__init__: [outcome, ret].
ElasticVectorSearch_init(inst, elasticsearch_url, index_name, embedding_function) ==
    IF ~inst THEN [outcome |-> "ValueError:import", ret |-> NoStore]
    ELSE IF ~ClientAccepts(elasticsearch_url)
         THEN [outcome |-> "ValueError:client", ret |-> NoStore]
    ELSE [outcome |-> "ok",
          ret |-> [cls |-> "ElasticVectorSearch",
                   elasticsearch_url |-> elasticsearch_url,
                   index_name |-> index_name,
                   embedding_function |-> embedding_function,
                   docs |-> <<>>]]

\* ResolveUrl with the tests written "is None": an empty string counts as given.
ResolveUrl_IsNone(kwargs, env) ==
    IF kwargs.elasticsearch_url # None THEN kwargs.elasticsearch_url ELSE env

\* The first lines of from_texts: the explicit argument if it is truthy, else
\* the environment variable; None when neither holds a non-empty string.
ResolveUrl(kwargs, env) ==
    IF Truthy(kwargs.elasticsearch_url) THEN kwargs.elasticsearch_url
    ELSE IF env = None \/ env = Some("") THEN None
    ELSE env

\* BuildRequests giving every request the first embedding.
BuildRequests_FirstEmbedding(index_name, texts, embeddings) ==
    [i \in 1..Len(texts) |->
        [_op_type |-> "index", _index |-> index_name,
         vector |-> embeddings[1], text |-> texts[i]]]

\* The requests from_texts builds: one per text, with the batch embedding.
BuildRequests(index_name, texts, embeddings) ==
    [i \in 1..Len(texts) |->
        [_op_type |-> "index", _index |-> index_name,
         vector |-> embeddings[i], text |-> texts[i]]]

\* from_texts up to the derivation of the dimension: the URL, the imports, the
\* client, the batch embedding and len(embeddings[0]).  The outcome is
\* "continue" when the index is about to be created.  [outcome, steps, url].
Preamble(inst, env, texts, e, kwargs) ==
    LET url == ResolveUrl(kwargs, env)
        stop(outcome, steps) == [outcome |-> outcome, steps |-> steps, url |-> url]
    IN  IF url = None THEN stop("ValueError:url", <<>>)
        ELSE IF ~inst THEN stop("ValueError:import", <<>>)
        ELSE IF ~ClientAccepts(url[1]) THEN stop("ValueError:client", <<>>)
        ELSE IF Raises(e) THEN stop("EmbeddingError", <<"client">>)
        ELSE IF embed_documents(e, texts) = <<>>
             THEN stop("IndexError", <<"client", "embed">>)
        ELSE stop("continue", <<"client", "embed">>)

\* The rest of from_texts: create the index, bulk-index one request per text,
\* refresh, construct the instance.  [outcome, steps, indexes, ret].
CreateAndIndex(inst, ixs, url, texts, e) ==
    LET index_name == Len(ixs) + 1
        embeddings == embed_documents(e, texts)
        created    == EngineCreate(ixs, default_text_mapping(Len(embeddings[1])))
        written    == EngineBulk(created, index_name,
                                 BuildRequests(index_name, texts, embeddings))
        refreshed  == EngineRefresh(written, index_name)
        made       == ElasticVectorSearch_init(inst, url, index_name,
                                               [obj |-> e, method |-> "embed_query"])
    IN  [outcome |-> made.outcome,
         steps |-> <<"client", "embed", "create", "bulk", "refresh", "init">>,
         indexes |-> refreshed, ret |-> made.ret]

\* from_texts creating the index as soon as the client is open, before the
\* texts are embedded.
from_texts_CreateFirst(inst, env, ixs, texts, e, kwargs) ==
    LET pre == Preamble(inst, env, texts, e, kwargs)
    IN  IF pre.outcome \in {"ValueError:url", "ValueError:import", "ValueError:client"}
        THEN [outcome |-> pre.outcome, steps |-> pre.steps, indexes |-> ixs,
              ret |-> NoStore]
        ELSE IF pre.outcome # "continue"
        THEN [outcome |-> pre.outcome, steps |-> <<"client", "create">>,
              indexes |-> EngineCreate(ixs, default_text_mapping(0)), ret |-> NoStore]
        ELSE CreateAndIndex(inst, ixs, pre.url[1], texts, e)

\* ElasticVectorSearch.from_texts(texts, embedding, **kwargs).
from_texts(inst, env, ixs, texts, e, kwargs) ==
    LET pre == Preamble(inst, env, texts, e, kwargs)
    IN  IF pre.outcome # "continue"
        THEN [outcome |-> pre.outcome, steps |-> pre.steps, indexes |-> ixs,
              ret |-> NoStore]
        ELSE CreateAndIndex(inst, ixs, pre.url[1], texts, e)

\* ElasticVectorSearch.add_texts(texts): [outcome, steps, indexes].
add_texts(ixs, st, texts) ==
    LET requests == [i \in 1..Len(texts) |->
                        [_op_type |-> "index", _index |-> st.index_name,
                         vector |-> CallEmbedding(st.embedding_function, texts[i]),
                         text |-> texts[i]]]
        embedded == [i \in 1..Len(texts) |-> "embed"]
    IN  IF texts # <<>> /\ Raises(st.embedding_function.obj)
        THEN [outcome |-> "EmbeddingError", steps |-> <<>>, indexes |-> ixs]
        ELSE IF "bulk" \notin ModuleGlobals
        THEN [outcome |-> "NameError", steps |-> embedded, indexes |-> ixs]
        ELSE [outcome |-> "ok", steps |-> embedded \o <<"bulk", "refresh">>,
              indexes |-> EngineRefresh(EngineBulk(ixs, st.index_name, requests),
                                        st.index_name)]

\* HitsToDocuments passing the hit's stored fields on as metadata.
HitsToDocuments_WithSource(hits, k) ==
    [i \in 1..Min(Len(hits), k) |->
        Document(hits[i].text, <<<<"text", hits[i].text>>>>)]

\* The last two lines of similarity_search: the first k hits' texts, each made
\* a Document with no metadata argument.
HitsToDocuments(hits, k) ==
    [i \in 1..Min(Len(hits), k) |-> Document(hits[i].text, EmptyDict)]

\* ElasticVectorSearch.similarity_search(query, k): the results it may return,
\* one per hit list the engine may answer with.  [outcome, ret].
similarity_search(ixs, st, query, k) ==
    IF Raises(st.embedding_function.obj)
    THEN {[outcome |-> "EmbeddingError", ret |-> <<>>]}
    ELSE IF st.index_name \notin DOMAIN ixs
    THEN {[outcome |-> "NotFoundError", ret |-> <<>>]}
    ELSE LET embedding    == CallEmbedding(st.embedding_function, query)
             script_query == default_script_query(embedding)
         IN  {[outcome |-> "ok", ret |-> HitsToDocuments(hits, k)] :
                 hits \in EngineSearch(ixs[st.index_name], script_query)}

(***************************************************************************)
(* The inputs the calls are tried with.                                    *)
(***************************************************************************)
BaseTexts == {"a", "b"}

\* Every list of at most MaxTexts texts, and uniform lists longer than the
\* engine's default result size.
TextLists ==
    SeqsUpTo(BaseTexts, MaxTexts)
      \cup {[i \in 1..(DefaultSize + m) |-> "a"] : m \in 1..MaxOver}

MetaDicts == {<<<<"source", "s">>>>}

\* metadatas absent, empty, or one dict long.
Metadatas == {None} \cup {Some(m) : m \in SeqsUpTo(MetaDicts, Cardinality(MetaDicts))}

Kwargs == [elasticsearch_url : ArgUrls, metadatas : Metadatas]

Ks == (1..MaxK) \cup {DefaultSize + MaxOver + 1}

(***************************************************************************)
(* The state machine of the vector store.                                  *)
(***************************************************************************)
NoSelector == [vectorstore |-> NoStore, k |-> 0, example_keys |-> None]

Init ==
    /\ environ \in EnvUrls
    /\ installed \in BOOLEAN
    /\ indexes = <<>>
    /\ store = NoStore
    /\ selector = NoSelector
    /\ last = [op |-> "none", outcome |-> "ok", steps |-> <<>>]

\* store = ElasticVectorSearch.from_texts(texts, embedding, **kwargs)
FromTexts(texts, e, kwargs) ==
    /\ Preamble(installed, environ, texts, e, kwargs).outcome = "continue"
          => Len(indexes) < MaxIndexes
    /\ \E r \in {from_texts(installed, environ, indexes, texts, e, kwargs)} :
        /\ indexes' = r.indexes
        /\ store' = IF r.outcome = "ok" THEN r.ret ELSE store
        /\ last' = [op |-> "from_texts", metadatas |-> kwargs.metadatas,
                    outcome |-> r.outcome, steps |-> r.steps, ret |-> r.ret]
    /\ UNCHANGED <<environ, installed, selector>>

\* store.add_texts(texts)
AddTexts(texts) ==
    /\ store.cls = "ElasticVectorSearch"
    /\ \E r \in {add_texts(indexes, store, texts)} :
          /\ indexes' = r.indexes
          /\ last' = [op |-> "add_texts", texts |-> texts, outcome |-> r.outcome,
                      steps |-> r.steps]
    /\ UNCHANGED <<environ, installed, store, selector>>

\* store.similarity_search(query, k)
SimilaritySearch(query, k) ==
    /\ store.cls = "ElasticVectorSearch"
    /\ \E r \in similarity_search(indexes, store, query, k) :
          last' = [op |-> "similarity_search", query |-> query, k |-> k,
                   outcome |-> r.outcome, steps |-> <<>>, ret |-> r.ret]
    /\ UNCHANGED <<environ, installed, indexes, store, selector>>

Next ==
    \/ \E texts \in TextLists, e \in EmbeddingNames, kwargs \in Kwargs :
          FromTexts(texts, e, kwargs)
    \/ \E texts \in TextLists : AddTexts(texts)
    \/ \E query \in Texts, k \in Ks : SimilaritySearch(query, k)

Spec == Init /\ [][Next]_vars

(***************************************************************************)
(* A backend that persists metadata.  The selector takes any VectorStore;  *)
(* this one follows the contract of the interface: one entry per text,     *)
(* each with the metadata aligned to it, kept in the instance, and a       *)
(* search that returns the k most similar entries, most similar first.     *)
(***************************************************************************)
\* PersistingStore.from_texts(texts, embedding, metadatas): [outcome, ret].
PersistingStore_from_texts(texts, e, metadatas) ==
    LET fail(outcome) == [outcome |-> outcome, ret |-> NoStore]
        embeddings == embed_documents(e, texts)
    IN  IF Raises(e) THEN fail("EmbeddingError")
        ELSE IF texts = <<>> THEN fail("ValueError:empty")
        ELSE IF metadatas # None /\ Len(metadatas[1]) # Len(texts)
        THEN fail("IndexError")
        ELSE [outcome |-> "ok",
              ret |-> [cls |-> "PersistingStore", elasticsearch_url |-> "",
                       index_name |-> 0,
                       embedding_function |-> [obj |-> e, method |-> "embed_query"],
                       docs |-> [i \in 1..Len(texts) |->
                                   [text |-> texts[i], vector |-> embeddings[i],
                                    metadata |-> IF metadatas = None THEN EmptyDict
                                                 ELSE metadatas[1][i]]]]]

\* PersistingStore.similarity_search(query, k): [outcome, ret].
PersistingStore_similarity_search(st, query, k) ==
    IF Raises(st.embedding_function.obj)
    THEN {[outcome |-> "EmbeddingError", ret |-> <<>>]}
    ELSE LET q == CallEmbedding(st.embedding_function, query)
             scores == [i \in 1..Len(st.docs) |-> CosinePlusOne(q, st.docs[i].vector)]
         IN  {[outcome |-> "ok",
               ret |-> [i \in 1..Min(Len(r), k) |-> Document(r[i].text, r[i].metadata)]] :
                 r \in Rankings(st.docs, scores)}

(***************************************************************************)
(* SemanticSimilarityExampleSelector.                                      *)
(***************************************************************************)
\* " ".join(values)
RECURSIVE Join(_)
Join(values) ==
    IF values = <<>> THEN ""
    ELSE IF Len(values) = 1 THEN values[1]
    ELSE values[1] \o " " \o Join(Tail(values))

\* " ".join(d.values()): the values in the dict's own order.
Flatten(d) == Join([i \in 1..Len(d) |-> d[i][2]])

\* vectorstore_cls.from_texts(texts, embeddings, metadatas=examples, **kwargs):
\* the call is dispatched on the class.  [outcome, indexes, ret].
Dispatch_from_texts(inst, env, ixs, vectorstore_cls, texts, e, metadatas, cls_kwargs) ==
    IF vectorstore_cls = "ElasticVectorSearch"
    THEN LET r == from_texts(inst, env, ixs, texts, e,
                             [elasticsearch_url |-> cls_kwargs.elasticsearch_url,
                              metadatas |-> metadatas])
         IN  [outcome |-> r.outcome, indexes |-> r.indexes, ret |-> r.ret]
    ELSE LET r == PersistingStore_from_texts(texts, e, metadatas)
         IN  [outcome |-> r.outcome, indexes |-> ixs, ret |-> r.ret]

\* vectorstore.similarity_search(query, k=k), dispatched on the instance.
Dispatch_similarity_search(ixs, st, query, k) ==
    IF st.cls = "ElasticVectorSearch" THEN similarity_search(ixs, st, query, k)
    ELSE PersistingStore_similarity_search(st, query, k)

\* from_examples storing each example under its first value only, not under
\* the space-join of all its values.
from_examples_FirstValue(inst, env, ixs, examples, e, vectorstore_cls, k, cls_kwargs) ==
    LET string_examples == [i \in 1..Len(examples) |-> examples[i][1][2]]
        r == Dispatch_from_texts(inst, env, ixs, vectorstore_cls, string_examples, e,
                                 Some(examples), cls_kwargs)
    IN  IF r.outcome # "ok"
        THEN [outcome |-> r.outcome, indexes |-> r.indexes, ret |-> NoSelector]
        ELSE [outcome |-> "ok", indexes |-> r.indexes,
              ret |-> [vectorstore |-> r.ret, k |-> k, example_keys |-> None]]

\* SemanticSimilarityExampleSelector.from_examples: the strings the examples
\* are stored under, then the store, then the selector with the default
\* example_keys.  [outcome, indexes, ret].
from_examples(inst, env, ixs, examples, e, vectorstore_cls, k, cls_kwargs) ==
    LET string_examples == [i \in 1..Len(examples) |-> Flatten(examples[i])]
        r == Dispatch_from_texts(inst, env, ixs, vectorstore_cls, string_examples, e,
                                 Some(examples), cls_kwargs)
    IN  IF r.outcome # "ok"
        THEN [outcome |-> r.outcome, indexes |-> r.indexes, ret |-> NoSelector]
        ELSE [outcome |-> "ok", indexes |-> r.indexes,
              ret |-> [vectorstore |-> r.ret, k |-> k, example_keys |-> None]]

\* {k: eg[k] for k in example_keys}
Project(eg, example_keys) ==
    [i \in 1..Len(example_keys) |-> <<example_keys[i], Lookup(eg, example_keys[i])>>]

\* ExamplesOf with the projection keeping only the keys an example has.
ExamplesOf_Filtering(example_docs, example_keys) ==
    LET examples == [i \in 1..Len(example_docs) |-> example_docs[i].metadata]
        present(eg) == SelectSeq(example_keys[1], LAMBDA key : key \in Keys(eg))
    IN  IF example_keys = None \/ example_keys = Some(<<>>)
        THEN [outcome |-> "ok", ret |-> examples]
        ELSE [outcome |-> "ok",
              ret |-> [i \in 1..Len(examples) |->
                          Project(examples[i], present(examples[i]))]]

\* The end of select_examples: a dict per document from its metadata, then
\* the projection when example_keys is a non-empty list.  [outcome, ret].
ExamplesOf(example_docs, example_keys) ==
    LET examples == [i \in 1..Len(example_docs) |-> example_docs[i].metadata]
    IN  IF example_keys = None \/ example_keys = Some(<<>>)
        THEN [outcome |-> "ok", ret |-> examples]
        ELSE IF \E i \in 1..Len(examples) :
                  \E j \in 1..Len(example_keys[1]) :
                      example_keys[1][j] \notin Keys(examples[i])
        THEN [outcome |-> "KeyError", ret |-> <<>>]
        ELSE [outcome |-> "ok",
              ret |-> [i \in 1..Len(examples) |-> Project(examples[i], example_keys[1])]]

\* k of similarity_search when the caller passes none.
DefaultK == 4

\* select_examples calling similarity_search(query) without k=self.k.
select_examples_DefaultK(ixs, sel, input_variables) ==
    LET query == Flatten(input_variables)
    IN  {IF r.outcome # "ok"
         THEN [outcome |-> r.outcome, ret |-> <<>>, example_docs |-> <<>>]
         ELSE [example_docs |-> r.ret] @@ ExamplesOf(r.ret, sel.example_keys) :
            r \in Dispatch_similarity_search(ixs, sel.vectorstore, query, DefaultK)}

\* SemanticSimilarityExampleSelector.select_examples(input_variables): the
\* results it may return, each with the documents it was made from.
\* [outcome, ret, example_docs].
select_examples(ixs, sel, input_variables) ==
    LET query == Flatten(input_variables)
    IN  {IF r.outcome # "ok"
         THEN [outcome |-> r.outcome, ret |-> <<>>, example_docs |-> <<>>]
         ELSE [example_docs |-> r.ret] @@ ExamplesOf(r.ret, sel.example_keys) :
            r \in Dispatch_similarity_search(ixs, sel.vectorstore, query, sel.k)}

(***************************************************************************)
(* The state machine of the example selector.                              *)
(***************************************************************************)
\* Example dicts whose flattened string is one of Texts.
ExamplePool ==
    {<<<<"q", "a">>, <<"a", "b">>>>, <<<<"q", "a b">>>>, <<<<"q", "b">>>>}

\* Every list of distinct examples of the pool.
ExampleLists ==
    {s \in SeqsUpTo(ExamplePool, Cardinality(ExamplePool)) :
        \A i, j \in 1..Len(s) : i # j => s[i] # s[j]}

KeyLists == {None, Some(<<>>), Some(<<"q">>), Some(<<"q", "a">>)}

ClsKwargs == [elasticsearch_url : {None, Some(GoodUrl)}]

InitSelector ==
    /\ environ = None
    /\ installed = TRUE
    /\ indexes = <<>>
    /\ store = NoStore
    /\ selector = NoSelector
    /\ last = [op |-> "none", outcome |-> "ok", steps |-> <<>>]

\* selector = SemanticSimilarityExampleSelector.from_examples(...)
FromExamples(examples, e, vectorstore_cls, k, cls_kwargs) ==
    /\ \E r \in {from_examples(installed, environ, indexes, examples, e,
                               vectorstore_cls, k, cls_kwargs)} :
          /\ Len(r.indexes) <= MaxIndexes
          /\ indexes' = r.indexes
          /\ selector' = IF r.outcome = "ok" THEN r.ret ELSE selector
          /\ last' = [op |-> "from_examples", outcome |-> r.outcome, ret |-> r.ret]
    /\ UNCHANGED <<environ, installed, store>>

\* selector.example_keys = example_keys
SetExampleKeys(example_keys) ==
    /\ selector.vectorstore.cls # "None"
    /\ selector' = [selector EXCEPT !.example_keys = example_keys]
    /\ last' = [op |-> "set_example_keys", outcome |-> "ok"]
    /\ UNCHANGED <<environ, installed, indexes, store>>

\* selector.select_examples(input_variables)
SelectExamples(input_variables) ==
    /\ selector.vectorstore.cls # "None"
    /\ \E r \in select_examples(indexes, selector, input_variables) :
          last' = [op |-> "select_examples", input_variables |-> input_variables,
                   example_docs |-> r.example_docs, outcome |-> r.outcome,
                   ret |-> r.ret]
    /\ UNCHANGED <<environ, installed, indexes, store, selector>>

\* The selector over the search-engine backend.
NextElasticSelector ==
    \/ \E examples \in ExampleLists, e \in EmbeddingNames, k \in 1..MaxK,
          cls_kwargs \in ClsKwargs :
          FromExamples(examples, e, "ElasticVectorSearch", k, cls_kwargs)
    \/ \E example_keys \in KeyLists : SetExampleKeys(example_keys)
    \/ \E input_variables \in ExamplePool : SelectExamples(input_variables)

SpecElasticSelector == InitSelector /\ [][NextElasticSelector]_vars

\* The selector over a backend that persists metadata.
NextPersistingSelector ==
    \/ \E examples \in ExampleLists, e \in EmbeddingNames, k \in 1..MaxK :
          FromExamples(examples, e, "PersistingStore", k, [elasticsearch_url |-> None])
    \/ \E example_keys \in KeyLists : SetExampleKeys(example_keys)
    \/ \E input_variables \in ExamplePool : SelectExamples(input_variables)

SpecPersistingSelector == InitSelector /\ [][NextPersistingSelector]_vars

(***************************************************************************)
(* Properties.                                                             *)
(***************************************************************************)
\* The searchable entries of the index the current store is bound to.
StoreDocs == indexes[store.index_name].docs

SearchReturned == last.op = "similarity_search" /\ last.outcome = "ok"

\* C1: similarity_search(query, k) on a store built by from_texts over n texts
\* returns at most k documents, and exactly n of them when k is greater than n,
\* for every n, also above the engine's default result size.
C1_LengthAtMostKAndAllWhenFewer ==
    SearchReturned =>
        /\ Len(last.ret) <= last.k
        /\ last.k > Len(StoreDocs) => Len(last.ret) = Len(StoreDocs)

\* C2: every Document similarity_search returns has empty metadata, and no
\* entry of any index holds more than its text and its vector, whatever was
\* passed as metadatas to from_texts.
C2_MetadataNeverReturned ==
    /\ last.op = "similarity_search" =>
          \A i \in 1..Len(last.ret) : last.ret[i].metadata = EmptyDict
    /\ \A n \in 1..Len(indexes) :
          \A i \in 1..Len(indexes[n].docs) :
              DOMAIN indexes[n].docs[i] = {"text", "vector"}

\* A search on a store whose index was built by from_texts returned documents.
C2_Witness ==
    /\ SearchReturned
    /\ Len(last.ret) > 1
    /\ last.ret[1].metadata = EmptyDict

\* C3: in every state, a call of from_texts with no truthy elasticsearch_url
\* argument while ELASTICSEARCH_URL is unset or empty fails with the missing-URL
\* ValueError before any step (no client, no embedding, no index: the engine is
\* unchanged, no instance is returned); with a non-empty URL in either place
\* that error is not raised, and the instance is bound to the explicit
\* argument when it is given, to the environment variable otherwise.
C3_MissingUrlIsConfigurationError ==
    \A texts \in TextLists, e \in EmbeddingNames, kwargs \in Kwargs :
        \A r \in {from_texts(installed, environ, indexes, texts, e, kwargs)} :
            IF ~Truthy(kwargs.elasticsearch_url) /\ ~Truthy(environ)
            THEN /\ r.outcome = "ValueError:url"
                 /\ r.steps = <<>>
                 /\ r.indexes = indexes
                 /\ r.ret = NoStore
            ELSE /\ r.outcome # "ValueError:url"
                 /\ r.outcome = "ok" =>
                       r.ret.elasticsearch_url =
                           IF Truthy(kwargs.elasticsearch_url)
                           THEN kwargs.elasticsearch_url[1] ELSE environ[1]

\* from_texts has just failed for want of a URL, with an index in the engine.
C3_Witness ==
    /\ last.op = "from_texts"
    /\ last.outcome = "ValueError:url"
    /\ last.steps = <<>>
    /\ ~Truthy(environ)
    /\ Len(indexes) > 0

\* C4: add_texts(texts) on an existing instance returns normally, having
\* appended one {text, vector} entry per text after the entries the index held,
\* all of them searchable (the index was refreshed).
C4_AddTextsAppendsAndReturns ==
    [][last'.op = "add_texts" =>
          /\ last'.outcome = "ok"
          /\ indexes'[store.index_name].pending = <<>>
          /\ indexes'[store.index_name].docs =
                StoreDocs \o [i \in 1..Len(last'.texts) |->
                                [text |-> last'.texts[i],
                                 vector |-> CallEmbedding(store.embedding_function,
                                                          last'.texts[i])]]]_vars

\* The text queried is one of the texts the store's index was built from.
QueryIsStored == \E i \in 1..Len(StoreDocs) : StoreDocs[i].text = last.query

\* The score of a text for the text queried last: cosine similarity + 1.0 of
\* the query's embedding and the text's embedding as a document.
ScoreOfText(text) ==
    CosinePlusOne(CallEmbedding(store.embedding_function, last.query),
                  embed_documents(store.embedding_function.obj, <<text>>)[1])

\* No other text of the index scores as high as the text queried: no other
\* text's embedding points the same way.
NoRivalText ==
    \A j \in 1..Len(StoreDocs) :
        StoreDocs[j].text # last.query
            => ScoreLess(ScoreOfText(StoreDocs[j].text), ScoreOfText(last.query))

IdentityCase ==
    /\ last.op = "similarity_search"
    /\ last.k = 1
    /\ Agrees(store.embedding_function.obj)
    /\ QueryIsStored

FoundItself ==
    /\ last.outcome = "ok"
    /\ Len(last.ret) = 1
    /\ last.ret[1].page_content = last.query

\* C7 as stated: for a deterministic embedding whose two methods agree,
\* from_texts(texts, embedding).similarity_search(texts[i], k=1) returns exactly
\* one document, whose text is texts[i].
C7_IdentityRetrieval == IdentityCase => FoundItself

\* C7 as amended: the same, when no other text of the index has an embedding
\* at cosine similarity 1 to that of texts[i].
C7_IdentityRetrievalWithoutRival == (IdentityCase /\ NoRivalText) => FoundItself

\* The text queried is one of several texts of the index and was found.
C7_Witness ==
    /\ IdentityCase
    /\ NoRivalText
    /\ \E i \in 1..Len(StoreDocs) : StoreDocs[i].text # last.query
    /\ FoundItself

\* C8: from_texts called with metadatas whose length differs from len(texts)
\* fails: it returns no store instance.
C8_MisalignedMetadatasFail ==
    (/\ last.op = "from_texts"
     /\ last.outcome = "ok"
     /\ last.metadatas # None)
        => Len(last.metadatas[1]) = Len(indexes[last.ret.index_name].docs)

\* C10: in every state, a call of from_texts with an empty list of texts or
\* with an embedding capability that raises fails without creating an index or
\* indexing an entry: the engine is as it was, and no instance is returned.
C10_NoIndexBeforeEmbedding ==
    \A texts \in TextLists, e \in EmbeddingNames, kwargs \in Kwargs :
        (texts = <<>> \/ Raises(e)) =>
            \A r \in {from_texts(installed, environ, indexes, texts, e, kwargs)} :
                /\ r.outcome \notin {"ok", "continue"}
                /\ r.indexes = indexes
                /\ r.ret = NoStore
                /\ \A i \in 1..Len(r.steps) : r.steps[i] \notin {"create", "bulk"}

\* from_texts has just failed on the dimension of an empty batch, after the
\* client was opened and the batch embedded, with the engine still empty.
C10_Witness ==
    /\ last.op = "from_texts"
    /\ last.outcome = "IndexError"
    /\ last.steps = <<"client", "embed">>
    /\ indexes = <<>>

(***************************************************************************)
(* Properties of the example selector.                                     *)
(***************************************************************************)
SelectorDocs ==
    IF selector.vectorstore.cls = "ElasticVectorSearch"
    THEN indexes[selector.vectorstore.index_name].docs
    ELSE selector.vectorstore.docs

Selected == last.op = "select_examples"

Projecting == Truthy(selector.example_keys)

\* The example select_examples is to return for the stored example eg.
Expected(eg) == IF Projecting THEN Project(eg, selector.example_keys[1]) ELSE eg

\* Every configured key is a key of every stored example.
KeysAvailable ==
    Projecting =>
        \A i \in 1..Len(SelectorDocs) :
            \A j \in 1..Len(selector.example_keys[1]) :
                selector.example_keys[1][j] \in Keys(SelectorDocs[i].metadata)

\* select_examples was called, on a backend that persists metadata and with an
\* embedding whose two methods agree, with one of the stored examples.
RoundTripCase ==
    /\ Selected
    /\ selector.vectorstore.cls = "PersistingStore"
    /\ Agrees(selector.vectorstore.embedding_function.obj)
    /\ \E i \in 1..Len(SelectorDocs) : SelectorDocs[i].metadata = last.input_variables
    /\ KeysAvailable

\* The score of a stored example for the example queried last: cosine
\* similarity + 1.0 of the embeddings of their space-joined values.
SelectorScore(eg) ==
    CosinePlusOne(CallEmbedding(selector.vectorstore.embedding_function,
                                Flatten(last.input_variables)),
                  embed_documents(selector.vectorstore.embedding_function.obj,
                                  <<Flatten(eg)>>)[1])

\* No other stored example scores as high as the example queried.
NoRivalExample ==
    \A j \in 1..Len(SelectorDocs) :
        SelectorDocs[j].metadata # last.input_variables
            => ScoreLess(SelectorScore(SelectorDocs[j].metadata),
                         SelectorScore(last.input_variables))

\* C5 as stated: select_examples with one of the stored examples returns that
\* example, with all its fields when no projection is configured and with
\* exactly the configured keys when one is.
C5_RoundTrip ==
    RoundTripCase =>
        /\ last.outcome = "ok"
        /\ \E i \in 1..Len(last.ret) : last.ret[i] = Expected(last.input_variables)

\* C5 as amended: the same, the example coming first, when no other stored
\* example's string has an embedding at cosine similarity 1 to that of the
\* example queried.
C5_RoundTripWithoutRival ==
    (RoundTripCase /\ NoRivalExample) =>
        /\ last.outcome = "ok"
        /\ last.ret # <<>>
        /\ last.ret[1] = Expected(last.input_variables)

\* One of several stored examples was queried, with a projection configured
\* that drops one of its fields, and came back projected.
C5_Witness ==
    /\ RoundTripCase
    /\ NoRivalExample
    /\ Len(SelectorDocs) > 1
    /\ Projecting
    /\ Len(last.input_variables) > Len(selector.example_keys[1])
    /\ last.ret[1] = Expected(last.input_variables)

\* Some document has no value for some configured key.
LacksKey(docs) ==
    \E i \in 1..Len(docs) :
        \E j \in 1..Len(selector.example_keys[1]) :
            selector.example_keys[1][j] \notin Keys(docs[i].metadata)

\* C6 as stated: when the allow-list holds a key absent from a stored example,
\* select_examples fails with a key-lookup error and returns no list.
C6_AbsentKeyFails ==
    (Selected /\ Projecting /\ LacksKey(SelectorDocs)) =>
        (last.outcome = "KeyError" /\ last.ret = <<>>)

\* C6 as amended: when the allow-list holds a key absent from one of the
\* examples retrieved for the query, select_examples fails with a key-lookup
\* error and returns no list; otherwise it returns one dict per retrieved
\* example, each with exactly the configured keys.
C6_AbsentKeyInRetrievedFails ==
    (Selected /\ Projecting) =>
        IF LacksKey(last.example_docs)
        THEN last.outcome = "KeyError" /\ last.ret = <<>>
        ELSE /\ last.outcome = "ok"
             /\ Len(last.ret) = Len(last.example_docs)
             /\ \A i \in 1..Len(last.ret) :
                   [j \in 1..Len(last.ret[i]) |-> last.ret[i][j][1]]
                       = selector.example_keys[1]

\* select_examples failed on a retrieved example that lacks a configured key,
\* another retrieved example having them all.
C6_Witness ==
    /\ Selected
    /\ Projecting
    /\ last.outcome = "KeyError"
    /\ Len(last.example_docs) > 1
    /\ ~LacksKey(<<last.example_docs[1]>>)

\* C9: over the search-engine backend and with no projection configured,
\* select_examples raises no error and returns at most k dicts, all empty.
C9_ElasticSelectorLosesExamples ==
    (/\ Selected
     /\ selector.vectorstore.cls = "ElasticVectorSearch"
     /\ ~Projecting) =>
        /\ last.outcome = "ok"
        /\ Len(last.ret) <= selector.k
        /\ \A i \in 1..Len(last.ret) : last.ret[i] = EmptyDict

\* Examples with fields were stored over the search-engine backend and a
\* selection returned empty dicts for them.
C9_Witness ==
    /\ Selected
    /\ selector.vectorstore.cls = "ElasticVectorSearch"
    /\ selector.example_keys = None
    /\ Len(SelectorDocs) > 1
    /\ Len(last.ret) > 1
    /\ last.ret[1] = EmptyDict

====
